---- MODULE Spec2Model ----
(***************************************************************************)
(* A model of the subproject resolver of mesonbuild/wrap/wrap.py: the      *)
(* Resolver object, the declaration it loads, the subprojects root it      *)
(* works on (target directories, package cache, temporary files) and the   *)
(* external tools it runs (git, hg, svn, the HTTP download).                *)
(*                                                                         *)
(* The environment is an oracle: the exit status of every tool, the output *)
(* of `git submodule status`, the body a server returns and the failure of *)
(* a connection are chosen nondeterministically where the code runs them.  *)
(* Two facts about git are assumed of the oracle: `git submodule status`   *)
(* reports a populated submodule (' ' or '+') only for a path that is a    *)
(* directory, and a clone that fails leaves no directory behind.           *)
(*                                                                         *)
(* Spec is the resolver called alone, a few times, on one subprojects      *)
(* root. Four smaller specifications run parts of the module on their own: *)
(* ParserSpec the declaration parser, ParSpec two resolvers that obtain    *)
(* their archives concurrently, PatchSpec apply_patch on an arbitrary      *)
(* root, UrlSpec the choice of the opener for the downloads of a process.  *)
(***************************************************************************)
EXTENDS Integers, Sequences, FiniteSets, TLC

\* ------------------------------------------------------------------------
\* Bounds of the model
\* ------------------------------------------------------------------------
\* longest archive, in blocks (one block carries one archive member)
MaxLen == 2
\* number of resolve calls made on one subprojects root
MaxCalls == 2
\* longest declaration file, in sections
MaxSections == 2
\* number of downloads one process makes
MaxDownloads == 3

\* ------------------------------------------------------------------------
\* Names, paths and archives
\* ------------------------------------------------------------------------
\* the dependency that is resolved (Resolver.packagename)
packagename == "foo"
\* directory names that can occur under the subprojects root
DirNames == {"foo", "bar"}
\* the build descriptor file name of resolve()
MesonBuild == "meson.build"
\* os.path.join(dirname, 'meson.build'), relative to the subprojects root
meson_file(directory) == <<directory, MesonBuild>>

\* members an archive can carry: paths relative to the extraction directory
Entries == { <<"foo", "meson.build">>, <<"meson.build">> }

RECURSIVE SeqsUpTo(_, _)
\* all sequences over S of length at most n
SeqsUpTo(S, n) ==
  IF n = 0 THEN { <<>> }
  ELSE LET shorter == SeqsUpTo(S, n - 1)
       IN  shorter \cup { Append(s, e) : s \in { t \in shorter : Len(t) = n - 1 }, e \in S }

\* the byte strings a server can send or a cache file can hold, as blocks
Payloads == SeqsUpTo(Entries, MaxLen)

\* one block's contribution to the digest
Code(e) == IF e = <<"foo", "meson.build">> THEN 1 ELSE 2

RECURSIVE Sha256(_)
\* hashlib.sha256 over a block sequence: collision free on Payloads
Sha256(s) == IF s = <<>> THEN 0 ELSE Code(Head(s)) + 3 * Sha256(Tail(s))

\* the archives the declarations of the model commit to
SourceArchives == { << <<"foo", "meson.build">> >>, << <<"meson.build">> >>,
                    << <<"meson.build">>, <<"foo", "meson.build">> >> }
PatchArchives == { << <<"foo", "meson.build">> >>, << <<"meson.build">> >> }

\* ------------------------------------------------------------------------
\* Declarations (PackageDefinition)
\* ------------------------------------------------------------------------
NoWrap == [type |-> "none", values |-> <<>>]

Revisions == {"HEAD", "tip", "1.0"}

\* str.lower() on the revisions of the model
Lower(s) == IF s = "HEAD" THEN "head" ELSE s

\* an optional key of a declaration
Opt(present, key, val) == IF present THEN key :> val ELSE <<>>

FileDeclarations ==
  { [type |-> "file",
     values |-> [source_filename |-> "src.tgz", source_url |-> "http://host/src.tgz",
                 source_hash |-> Sha256(src)]
                @@ Opt(d \in DirNames, "directory", d)
                @@ Opt(lead, "lead_directory_missing", "true")
                @@ Opt(pa # <<>>, "patch_url", "http://host/patch.tgz")
                @@ Opt(pa # <<>>, "patch_filename", "patch.tgz")
                @@ Opt(pa # <<>>, "patch_hash", Sha256(pa))] :
      src \in SourceArchives, d \in DirNames \cup {"-"}, lead \in BOOLEAN,
      pa \in PatchArchives \cup { <<>> } }

VcsDeclarations ==
  { [type |-> t,
     values |-> [url |-> "http://host/repo", revision |-> r]
                @@ Opt(d \in DirNames, "directory", d)
                @@ Opt(push, "push-url", "ssh://host/repo")
                @@ Opt(rec, "clone-recursive", "true")] :
      t \in {"git", "hg", "svn"}, r \in Revisions, d \in DirNames \cup {"-"},
      push \in BOOLEAN, rec \in BOOLEAN }

Declarations == { f \in FileDeclarations :
                     "lead_directory_missing" \in DOMAIN f.values =>
                       "patch_url" \notin DOMAIN f.values }
                \cup { v \in VcsDeclarations :
                   v.type # "git" =>
                     /\ "push-url" \notin DOMAIN v.values
                     /\ "clone-recursive" \notin DOMAIN v.values }

\* 'key in p.values'
HasKey(p, key) == key \in DOMAIN p.values
\* PackageDefinition.get; a KeyError when the key is absent
Get(p, key) == p.values[key]
\* PackageDefinition.has_patch
has_patch(p) == HasKey(p, "patch_url")

\* ------------------------------------------------------------------------
\* Results and the log of external activity
\* ------------------------------------------------------------------------
Ok(d) == [ok |-> TRUE, val |-> d]
Err(e) == [ok |-> FALSE, val |-> e]
Running == [ok |-> FALSE, val |-> "-"]
Call(cmd, rc) == [cmd |-> cmd, rc |-> rc]

NoFile == << <<"-">> >>

\* ------------------------------------------------------------------------
\* The declaration file and its parser (PackageDefinition)
\* ------------------------------------------------------------------------
\* str.startswith / bytes.startswith on a sequence of characters or tokens
startswith(s, prefix) == Len(s) >= Len(prefix) /\ SubSeq(s, 1, Len(prefix)) = prefix

RECURSIVE Join(_)
\* the string a sequence of characters spells
Join(chars) == IF chars = <<>> THEN "" ELSE Head(chars) \o Join(Tail(chars))

\* the prefix a section name must have (line 77)
WrapPrefix == <<"w", "r", "a", "p", "-">>

\* the section names of the model's files, as character sequences
SectionNames ==
  { WrapPrefix \o <<"f", "i", "l", "e">>, WrapPrefix \o <<"g", "i", "t">>,
    WrapPrefix \o <<"h", "g">>, WrapPrefix \o <<"s", "v", "n">>,
    WrapPrefix \o <<"z", "i", "p">>, WrapPrefix,
    <<"g", "i", "t">>, <<"W", "r", "a", "p", "-", "g", "i", "t">> }

\* the options a section of the model's files can hold, as written in the file
OptionSets ==
  { <<>>,
    [url |-> "http://host/repo", revision |-> "HEAD"],
    ("Directory" :> "foo") @@ [url |-> "http://host/repo", revision |-> "HEAD"] }

\* the options the [DEFAULT] section of the model's files can hold
DefaultSets == { <<>>, [revision |-> "1.0"] }

\* the section sequences of at most n sections with distinct names
\* (configparser refuses a file that repeats a section name)
SectionSeqs(n) ==
  { ss \in SeqsUpTo([name : SectionNames, options : OptionSets], n) :
      \A i, j \in 1..Len(ss) : ss[i].name = ss[j].name => i = j }

\* ConfigParser.optionxform: option names are lower-cased
optionxform(key) == IF key = "Directory" THEN "directory" ELSE key

\* the options of one section as ConfigParser keeps them
Options(raw) ==
  [k \in { optionxform(x) : x \in DOMAIN raw } |->
     raw[CHOOSE x \in DOMAIN raw : optionxform(x) = k]]

\* dict(self.config[section]): the options of the section, and those of
\* [DEFAULT] the section does not set itself
SectionProxy(f, i) == Options(f.sections[i].options) @@ Options(f.defaults)

\* PackageDefinition(fname) on a file with content f, lines 73-80: the error
\* raised ("" for none) and the declaration
PackageDefinition(f) ==
  IF f.sections = <<>> THEN [err |-> "IndexError", p |-> NoWrap]
  ELSE LET wrap_section == f.sections[1].name
       IN  IF ~startswith(wrap_section, WrapPrefix)
           THEN [err |-> "InvalidFormat", p |-> NoWrap]
           ELSE [err |-> "",
                 p |-> [type |-> Join(SubSeq(wrap_section, Len(WrapPrefix) + 1,
                                             Len(wrap_section))),
                        values |-> SectionProxy(f, 1)]]

\* PackageDefinition.get(key), line 83
get(p, key) == IF HasKey(p, key) THEN Ok(Get(p, key)) ELSE Err("KeyError")

\* the kinds resolve dispatches on (lines 123-132)
KnownKinds == {"file", "git", "hg", "svn"}

\* the declaration files of the model; isfile is os.path.isfile(fname)
WrapFiles == [isfile : {TRUE}, defaults : DefaultSets, sections : SectionSeqs(MaxSections)]
NoWrapFile == [isfile |-> FALSE, defaults |-> <<>>, sections |-> <<>>]

\* load_wrap on a subprojects root whose <packagename>.wrap holds f
load_wrap_file(f) == IF f.isfile THEN PackageDefinition(f) ELSE [err |-> "", p |-> NoWrap]

\* the declarations PackageDefinition returns whose kind resolve does not know
OddDeclarations ==
  { PackageDefinition(f).p :
      f \in { g \in [isfile : {TRUE}, defaults : { <<>> }, sections : SectionSeqs(1)] :
                /\ PackageDefinition(g).err = ""
                /\ PackageDefinition(g).p.type \notin KnownKinds } }


\* ------------------------------------------------------------------------
\* State
\* ------------------------------------------------------------------------
VARIABLES
  wrapfile,   \* <subdir_root>/<packagename>.wrap: a declaration or NoWrap
  wrap_mode,  \* Resolver.wrap_mode
  top,        \* each name under the subprojects root: "absent", "file", "dir"
  files,      \* the regular files below the root: path -> where it came from
  readonly,   \* the paths whose file is read-only
  repo,       \* the kind of checkout a directory holds: "none", "git", "hg", "svn"
  cachedir,   \* whether <subdir_root>/packagecache is a directory
  cache,      \* the files of the package cache under their declared names
  tmpfiles,   \* the temporary files of the package cache: id -> content
  pc,         \* the position of the resolve call
  directory,  \* resolve's local `directory`
  branch,     \* the branch resolve took at lines 107 and 113
  sm,         \* the status output and the result of resolve_git_submodule
  what,       \* the role get_file_internal works on: "source" or "patch"
  body,       \* the body of the response being read
  nread,      \* the number of blocks read from it
  h,          \* the blocks fed to the digest so far
  tmpname,    \* the id of the temporary file of this download
  result,     \* what the resolve call returned or raised
  prev,       \* what the previous resolve call returned or raised
  calls,      \* the number of resolve calls started
  log,        \* the external tools run and connections opened by this call
  touched,    \* whether the filesystem was changed since the previous call
  wrapsrc,    \* the text of a .wrap file handed to PackageDefinition
  pd,         \* what PackageDefinition(fname) returned or raised
  got,        \* what the last PackageDefinition.get(key) returned or raised
  par,        \* the locals of the resolvers that run concurrently on one root
  has_ssl,    \* the module global has_ssl
  ssl_warning_printed,  \* the module global ssl_warning_printed
  requests,   \* the urlopen calls of the last get_data: the URL and the outcome
  warnings,   \* the number of fallback warnings printed by the process
  downloads   \* the number of get_data calls of the process

fsvars == <<top, files, readonly, repo, cachedir, cache, tmpfiles>>
dlvars == <<what, body, nread, h, tmpname>>
\* the state of the resolve call that runs alone on its subprojects root
callvars == <<wrapfile, wrap_mode, pc, directory, branch, sm, what, body, nread,
              h, tmpname, result, prev, calls, log, touched>>
\* the state of the parser, of the concurrent resolvers and of the openers
parservars == <<wrapsrc, pd, got>>
urlvars == <<has_ssl, ssl_warning_printed, requests, warnings, downloads>>
auxvars == <<parservars, par, urlvars>>
vars == <<wrapfile, wrap_mode, top, files, readonly, repo, cachedir, cache,
          tmpfiles, pc, directory, branch, sm, what, body, nread, h, tmpname,
          result, prev, calls, log, touched, wrapsrc, pd, got, par, has_ssl,
          ssl_warning_printed, requests, warnings, downloads>>

Filenames == {"src.tgz", "patch.tgz"}
NoSm == [out |-> <<"n/a">>, ret |-> "n/a"]

\* the states the target directory can be in before the first call
InitTargets ==
  { [top |-> "absent", meson |-> FALSE, repo |-> "none"],
    [top |-> "file",   meson |-> FALSE, repo |-> "none"],
    [top |-> "dir",    meson |-> FALSE, repo |-> "none"],
    [top |-> "dir",    meson |-> TRUE,  repo |-> "none"],
    [top |-> "dir",    meson |-> FALSE, repo |-> "git"],
    [top |-> "dir",    meson |-> TRUE,  repo |-> "git"] }

\* the directory resolve computes from a declaration (lines 99-101)
TargetOf(p) ==
  IF p # NoWrap /\ HasKey(p, "directory") THEN Get(p, "directory") ELSE packagename

\* nothing was parsed
Unread == [err |-> "-", p |-> NoWrap]
NoGet == [key |-> "-", res |-> Running]
ParserIdle == wrapsrc = NoWrapFile /\ pd = Unread /\ got = NoGet
\* no resolver runs beside the one of the call
ParIdle == par = <<>>
\* no download was made by the process
NoRequests == [declared |-> <<>>, via |-> "-", calls |-> <<>>]
UrlIdle ==
  /\ has_ssl = TRUE
  /\ ssl_warning_printed = FALSE
  /\ requests = NoRequests
  /\ warnings = 0
  /\ downloads = 0

Init ==
  /\ ParserIdle /\ ParIdle /\ UrlIdle
  /\ wrapfile \in Declarations \cup {NoWrap} \cup OddDeclarations
  /\ wrap_mode \in {"default", "nodownload"}
  /\ \E t \in InitTargets :
       /\ top = [d \in DirNames |-> IF d = TargetOf(wrapfile) THEN t.top ELSE "absent"]
       /\ files = IF t.meson THEN meson_file(TargetOf(wrapfile)) :> "pre"
                  ELSE IF t.top = "file" THEN <<TargetOf(wrapfile)>> :> "pre"
                  ELSE <<>>
       /\ repo = [d \in DirNames |-> IF d = TargetOf(wrapfile) THEN t.repo ELSE "none"]
       /\ \E cd \in BOOLEAN, c \in [Filenames -> SourceArchives \cup {NoFile}] :
            /\ cachedir = cd
            /\ cache = c
            /\ (\E f \in Filenames : c[f] # NoFile) =>
                 cd /\ wrapfile.type = "file" /\ t.top = "absent"
            /\ c["patch.tgz"] # NoFile => has_patch(wrapfile)
  /\ readonly = {}
  /\ tmpfiles = <<>>
  /\ pc = "idle"
  /\ directory = "-"
  /\ branch = "-"
  /\ sm = NoSm
  /\ what = "-"
  /\ body = <<>>
  /\ nread = 0
  /\ h = <<>>
  /\ tmpname = 0
  /\ result = Running
  /\ prev = Running
  /\ calls = 0
  /\ log = <<>>
  /\ touched = FALSE

\* ------------------------------------------------------------------------
\* File system helpers
\* ------------------------------------------------------------------------
\* os.path.exists of a file below the root
FileExists(path) == path \in DOMAIN files
\* os.path.exists / os.path.isdir of a name directly under the root
Exists(d) == top[d] # "absent"
IsDir(d) == top[d] = "dir"

\* the files left when `path` is removed
Without(fs, path) == [q \in (DOMAIN fs) \ {path} |-> fs[q]]

\* a tool wrote (present) or deleted the build descriptor of directory d
SetMeson(fs, d, present, origin) ==
  IF present THEN (meson_file(d) :> origin) @@ fs ELSE Without(fs, meson_file(d))


\* ------------------------------------------------------------------------
\* Submodule reconciliation (resolve_git_submodule)
\* ------------------------------------------------------------------------
\* what `git submodule status <dirname>` can print, as a character sequence
StatusOutputs == { <<>>, <<"+", "c">>, <<"U", "c">>, <<"-", "c">>, <<" ", "c">>, <<"?">> }

\* bytes.startswith for a one character prefix
StartsWith(out, ch) == Len(out) > 0 /\ out[1] = ch

\* a classification that takes a merge conflict for a stale submodule
SubmoduleBranch_conflict_accepted(out) ==
  IF StartsWith(out, "+") \/ StartsWith(out, "U") THEN "warn"
  ELSE IF StartsWith(out, "-") THEN "init"
  ELSE IF StartsWith(out, " ") THEN "checkout"
  ELSE IF out = <<>> THEN "none"
  ELSE "unknown"

\* the branch of the if/elif chain of lines 166-186 that an output selects
SubmoduleBranch(out) ==
  IF StartsWith(out, "+") THEN "warn"
  ELSE IF StartsWith(out, "U") THEN "conflict"
  ELSE IF StartsWith(out, "-") THEN "init"
  ELSE IF StartsWith(out, " ") THEN "checkout"
  ELSE IF out = <<>> THEN "none"
  ELSE "unknown"

\* resolve_git_submodule(dirname) under one choice of the oracle:
\*   rp, st: whether the two quiet_git queries succeed; out: the status
\*   output; rc: the exit status of the tool the branch runs; m: whether the
\*   tool leaves a build descriptor in the directory.
\* ret is "True", "False" or the error raised.
resolve_git_submodule(d, rp, st, out, rc, m) ==
  LET l1 == << Call("git rev-parse", IF rp THEN 0 ELSE 1) >>
      l2 == Append(l1, Call("git submodule status", IF st THEN 0 ELSE 1))
      base == [out |-> <<"n/a">>, ret |-> "False", log |-> l1,
               top |-> top, files |-> files, repo |-> repo]
      seen == [base EXCEPT !.out = out, !.log = l2]
      b == SubmoduleBranch(out)
  IN  IF ~rp THEN base
      ELSE IF ~st THEN [base EXCEPT !.log = l2]
      ELSE IF b = "warn"
        THEN [seen EXCEPT !.ret = "True", !.log = Append(l2, Call("mlog.warning", 0))]
      ELSE IF b = "conflict"
        THEN [seen EXCEPT !.ret = "MergeConflict"]
      ELSE IF b = "init"
        THEN IF rc = 0
             THEN [seen EXCEPT !.ret = "True",
                               !.log = Append(l2, Call("git submodule update --init", 0)),
                               !.top = [top EXCEPT ![d] = "dir"],
                               !.repo = [repo EXCEPT ![d] = "git"],
                               !.files = SetMeson(files, d, m, "vcs")]
             ELSE [seen EXCEPT !.ret = "SubmoduleInitFailed",
                               !.log = Append(l2, Call("git submodule update --init", rc))]
      ELSE IF b = "checkout"
        THEN [seen EXCEPT !.ret = "True",
                          !.log = Append(l2, Call("git checkout .", rc)),
                          !.files = IF rc = 0 /\ m THEN SetMeson(files, d, TRUE, "vcs") ELSE files]
      ELSE IF b = "none"
        THEN [seen EXCEPT !.ret = "False"]
      ELSE [seen EXCEPT !.ret = "UnknownSubmoduleOutput"]

\* the errors resolve_git_submodule raises
SubmoduleErrors == {"MergeConflict", "SubmoduleInitFailed", "UnknownSubmoduleOutput"}

\* every outcome of resolve_git_submodule(d) the environment allows
SubmoduleOutcomes(d) ==
  { resolve_git_submodule(d, rp, st, out, rc, m) :
      rp \in BOOLEAN, st \in BOOLEAN, rc \in {0, 1}, m \in BOOLEAN,
      out \in { o \in StatusOutputs :
                  (StartsWith(o, " ") \/ StartsWith(o, "+")) => IsDir(d) } }

\* ------------------------------------------------------------------------
\* resolve
\* ------------------------------------------------------------------------
\* load_wrap
load_wrap == wrapfile

\* a resolve that never takes the early return
ShortCircuit_skipped(dir) == FALSE

\* line 107: the directory is there and has meson.build
ShortCircuit(dir) == FileExists(meson_file(dir))

\* a check_can_download that never raises
check_can_download_ignored == TRUE

\* check_can_download: TRUE when it returns, FALSE when it raises
check_can_download == wrap_mode # "nodownload"

\* a resolve that takes every target for a missing one
TargetExists_ignored(o, dir) == FALSE

\* line 113: os.path.exists(dirname) after submodule outcome o
TargetExists(o, dir) == o.top[dir] # "absent"

\* lines 113-134 after submodule outcome o: the position resolve goes to
Dispatch(p, dir, o) ==
  IF o.ret \in SubmoduleErrors
    THEN [branch |-> "submodule", pc |-> "done", result |-> Err(o.ret)]
  ELSE IF TargetExists(o, dir)
    THEN IF o.top[dir] # "dir"
         THEN [branch |-> "exists", pc |-> "done", result |-> Err("NotADirectory")]
         ELSE [branch |-> "exists", pc |-> "final", result |-> Running]
  ELSE IF p = NoWrap
    THEN [branch |-> "absent", pc |-> "done", result |-> Err("NoWrapFound")]
  ELSE IF p.type = "file"
    THEN [branch |-> "absent", pc |-> "get_file_internal", result |-> Running]
  ELSE IF ~check_can_download
    THEN [branch |-> "absent", pc |-> "done", result |-> Err("DownloadDisabled")]
  ELSE IF p.type = "git"
    THEN [branch |-> "absent", pc |-> "get_git", result |-> Running]
  ELSE IF p.type = "hg"
    THEN [branch |-> "absent", pc |-> "get_hg", result |-> Running]
  ELSE IF p.type = "svn"
    THEN [branch |-> "absent", pc |-> "get_svn", result |-> Running]
  ELSE [branch |-> "absent", pc |-> "done", result |-> Err("AssertionError")]

\* resolve(packagename), lines 94-134: up to the call of a strategy
Resolve ==
  /\ pc = "idle"
  /\ calls < MaxCalls
  /\ calls' = calls + 1
  /\ LET p == load_wrap
         dir == TargetOf(p)
     IN  /\ directory' = dir
         /\ IF ShortCircuit(dir)
            THEN /\ branch' = "short"
                 /\ sm' = NoSm
                 /\ log' = <<>>
                 /\ pc' = "done"
                 /\ result' = Ok(dir)
                 /\ what' = "-"
                 /\ UNCHANGED fsvars
            ELSE \E o \in SubmoduleOutcomes(dir) :
                   LET n == Dispatch(p, dir, o)
                   IN  /\ sm' = [out |-> o.out, ret |-> o.ret]
                       /\ log' = o.log
                       /\ top' = o.top
                       /\ files' = o.files
                       /\ repo' = o.repo
                       /\ branch' = n.branch
                       /\ pc' = n.pc
                       /\ result' = n.result
                       /\ what' = IF n.pc = "get_file_internal" THEN "source" ELSE "-"
                       /\ UNCHANGED <<readonly, cachedir, cache, tmpfiles>>
  /\ UNCHANGED <<auxvars, wrapfile, wrap_mode, body, nread, h, tmpname, prev, touched>>

\* a final check that lets every directory pass
DescriptorPresent_unchecked(dir) == TRUE

\* line 137: whether the final check lets resolve return
DescriptorPresent(dir) == FileExists(meson_file(dir))

\* resolve, lines 136-141: a meson.build file is required in the directory
FinalCheck ==
  /\ pc = "final"
  /\ pc' = "done"
  /\ result' = IF DescriptorPresent(directory) THEN Ok(directory) ELSE Err("NoMesonBuild")
  /\ UNCHANGED <<auxvars, wrapfile, wrap_mode, fsvars, directory, branch, sm, dlvars,
                 prev, calls, log, touched>>

\* the caller takes the result or the error; the locals of the call are gone
\* and the resolver is ready for the next call
Return ==
  /\ pc = "done"
  /\ calls < MaxCalls
  /\ pc' = "idle"
  /\ prev' = result
  /\ result' = Running
  /\ touched' = FALSE
  /\ directory' = "-"
  /\ branch' = "-"
  /\ sm' = NoSm
  /\ what' = "-"
  /\ body' = <<>>
  /\ nread' = 0
  /\ h' = <<>>
  /\ tmpname' = 0
  /\ log' = <<>>
  /\ UNCHANGED <<auxvars, wrapfile, wrap_mode, fsvars, calls>>

\* between two calls somebody else changes the subprojects root: the build
\* descriptor of the target is deleted, or one block of a cached file changes
Tamper ==
  /\ pc = "idle"
  /\ calls >= 1
  /\ ~touched
  /\ touched' = TRUE
  /\ \/ /\ FileExists(meson_file(TargetOf(wrapfile)))
        /\ files' = Without(files, meson_file(TargetOf(wrapfile)))
        /\ UNCHANGED cache
     \/ /\ \E f \in Filenames, e \in Entries :
             /\ cache[f] # NoFile
             /\ \E i \in 1..Len(cache[f]) :
                  /\ cache[f][i] # e
                  /\ cache' = [cache EXCEPT ![f][i] = e]
        /\ UNCHANGED files
  /\ UNCHANGED <<auxvars, wrapfile, wrap_mode, top, readonly, repo, cachedir, tmpfiles,
                 pc, directory, branch, sm, dlvars, result, prev, calls, log>>


\* ------------------------------------------------------------------------
\* The package cache and the download (get_file_internal, download, get_data)
\* ------------------------------------------------------------------------
\* what + '_filename', what + '_hash', what + '_url'
Key(role, suffix) == role \o suffix

\* a check_hash that accepts every cached file
check_hash_accepting(p, role, content) == TRUE

\* check_hash(p, what, path), lines 332-339, on a file holding `content`:
\* TRUE when it returns, FALSE when it raises
check_hash(p, role, content) == Sha256(content) = Get(p, Key(role, "_hash"))

\* a download that renames whatever it received
HashMatches_always(dhash, expected) == TRUE

\* the comparison of download (line 347): TRUE when the digest of the
\* downloaded blocks is the expected one
HashMatches(dhash, expected) == dhash = expected

\* where get_file and apply_patch continue once they hold the artifact
AfterArtifact(role) == IF role = "source" THEN "extract" ELSE "unpack_patch"

\* get_file_internal(p, what), lines 352-362: the cache hit with check_hash,
\* or the creation of the cache directory before the download
GetFileInternal ==
  /\ pc = "get_file_internal"
  /\ LET p == wrapfile
         filename == Get(p, Key(what, "_filename"))
     IN  IF cache[filename] # NoFile
         THEN /\ IF check_hash(p, what, cache[filename])
                 THEN pc' = AfterArtifact(what) /\ result' = result
                 ELSE pc' = "done" /\ result' = Err("HashMismatch")
              /\ UNCHANGED cachedir
         ELSE /\ cachedir' = TRUE
              /\ pc' = "download"
              /\ result' = result
  /\ UNCHANGED <<auxvars, wrapfile, wrap_mode, top, files, readonly, repo, cache, tmpfiles,
                 directory, branch, sm, dlvars, prev, calls, log, touched>>

\* a temporary name picked without looking at the files that are there
FreshTmp_taken == CHOOSE n \in 1..(Cardinality(DOMAIN tmpfiles) + 1) : TRUE

\* the name tempfile.NamedTemporaryFile picks: one no file of the cache has
FreshTmp == CHOOSE n \in 1..(Cardinality(DOMAIN tmpfiles) + 1) : n \notin DOMAIN tmpfiles

\* download, lines 342-345, and get_data, lines 289-291: the mode check and
\* the creation of the temporary file
DownloadStart ==
  /\ pc = "download"
  /\ IF ~check_can_download
     THEN /\ pc' = "done"
          /\ result' = Err("DownloadDisabled")
          /\ UNCHANGED <<tmpfiles, tmpname, h>>
     ELSE /\ pc' = "urlopen"
          /\ result' = result
          /\ tmpname' = FreshTmp
          /\ tmpfiles' = (FreshTmp :> <<>>) @@ tmpfiles
          /\ h' = <<>>
  /\ UNCHANGED <<auxvars, wrapfile, wrap_mode, top, files, readonly, repo, cachedir, cache,
                 directory, branch, sm, what, body, nread, prev, calls, log, touched>>

\* get_data, lines 292-296: the connection is opened, or the attempt raises
UrlOpen ==
  /\ pc = "urlopen"
  /\ \/ /\ pc' = "done"
        /\ result' = Err("URLError")
        /\ log' = Append(log, Call("urlopen", 1))
        /\ UNCHANGED <<body, nread>>
     \/ /\ \E b \in Payloads : body' = b
        /\ nread' = 0
        /\ pc' = "read"
        /\ result' = result
        /\ log' = Append(log, Call("urlopen", 0))
  /\ UNCHANGED <<auxvars, wrapfile, wrap_mode, fsvars, directory, branch, sm, what, h,
                 tmpname, prev, calls, touched>>

\* get_data, lines 304-308 and 317-322: one block is read, hashed and written
\* (the file object is dropped when get_data returns, so what was written is
\* in the file by the time download compares the digest)
ReadBlock ==
  /\ pc = "read"
  /\ nread < Len(body)
  /\ LET block == body[nread + 1]
     IN  /\ h' = Append(h, block)
         /\ tmpfiles' = [tmpfiles EXCEPT ![tmpname] = Append(@, block)]
  /\ nread' = nread + 1
  /\ UNCHANGED <<auxvars, wrapfile, wrap_mode, top, files, readonly, repo, cachedir, cache,
                 pc, directory, branch, sm, what, body, tmpname, result, prev,
                 calls, log, touched>>

\* get_data, lines 304 and 317: resp.read raises in the middle of the stream
ReadFail ==
  /\ pc = "read"
  /\ pc' = "done"
  /\ result' = Err("URLError")
  /\ UNCHANGED <<auxvars, wrapfile, wrap_mode, fsvars, directory, branch, sm, dlvars,
                 prev, calls, log, touched>>

\* get_data, lines 305-310 and 318-330: the empty block ends the stream
ReadEof ==
  /\ pc = "read"
  /\ nread = Len(body)
  /\ pc' = "verify"
  /\ UNCHANGED <<auxvars, wrapfile, wrap_mode, fsvars, directory, branch, sm, dlvars,
                 result, prev, calls, log, touched>>

\* the files of the cache after os.remove(tmpfile) or os.rename(tmpfile, ...)
TmpGone == [n \in (DOMAIN tmpfiles) \ {tmpname} |-> tmpfiles[n]]

\* download, lines 346-350: the digest is compared, then the temporary file
\* is removed or renamed to the final name
DownloadVerify ==
  /\ pc = "verify"
  /\ LET p == wrapfile
         dhash == Sha256(h)
         ofname == Get(p, Key(what, "_filename"))
     IN  IF ~HashMatches(dhash, Get(p, Key(what, "_hash")))
         THEN /\ tmpfiles' = TmpGone
              /\ pc' = "done"
              /\ result' = Err("HashMismatch")
              /\ UNCHANGED cache
         ELSE /\ cache' = [cache EXCEPT ![ofname] = tmpfiles[tmpname]]
              /\ tmpfiles' = TmpGone
              /\ pc' = AfterArtifact(what)
              /\ result' = result
  /\ UNCHANGED <<auxvars, wrapfile, wrap_mode, top, files, readonly, repo, cachedir,
                 directory, branch, sm, dlvars, prev, calls, log, touched>>

\* ------------------------------------------------------------------------
\* Archives (shutil.unpack_archive) and the file strategy
\* ------------------------------------------------------------------------
RECURSIVE Unpack(_, _, _, _)
\* the members of an archive are written in order below `prefix`; the first
\* member that cannot be written (its directory is a regular file, or the
\* file is there and read-only) ends the extraction with an error
Unpack(archive, prefix, origin, st) ==
  IF archive = <<>> \/ ~st.ok THEN st
  ELSE LET fp == prefix \o Head(archive)
           blocked == \/ Len(fp) >= 2 /\ st.top[fp[1]] = "file"
                      \/ fp \in DOMAIN st.files /\ fp \in st.readonly
       IN  IF blocked THEN [st EXCEPT !.ok = FALSE]
           ELSE Unpack(Tail(archive), prefix, origin,
                       [st EXCEPT !.top = IF Len(fp) >= 2 THEN [st.top EXCEPT ![fp[1]] = "dir"]
                                          ELSE st.top,
                                  !.files = (fp :> origin) @@ st.files])

\* shutil.unpack_archive: a file without members is not an archive
unpack_archive(archive, prefix, origin, st) ==
  IF archive = <<>> THEN [st EXCEPT !.ok = FALSE] ELSE Unpack(archive, prefix, origin, st)

\* the subprojects root as unpack_archive and copy_tree see it
Root == [ok |-> TRUE, top |-> top, files |-> files, readonly |-> readonly]
\* an empty directory (tempfile.TemporaryDirectory)
Scratch == [ok |-> TRUE, top |-> [d \in DirNames |-> "absent"], files |-> <<>>, readonly |-> {}]

\* an extraction that always goes into the target directory
ExtractDir_target(lead, target_dir) == <<target_dir>>

\* get_file, lines 191-197: the directory the archive is extracted into,
\* relative to the subprojects root
ExtractDir(lead, target_dir) == IF lead THEN <<target_dir>> ELSE <<>>

\* get_file, lines 190-202: the archive that was obtained is extracted
Extract ==
  /\ pc = "extract"
  /\ LET p == wrapfile
         path == cache[Get(p, "source_filename")]
     IN  IF ~HasKey(p, "directory")
         THEN /\ pc' = "done"
              /\ result' = Err("KeyError")
              /\ UNCHANGED <<top, files, what>>
         ELSE LET target_dir == Get(p, "directory")
                  lead == HasKey(p, "lead_directory_missing")
                  made == IF lead THEN [Root EXCEPT !.top[target_dir] = "dir"] ELSE Root
                  r == unpack_archive(path, ExtractDir(lead, target_dir), "source", made)
              IN  IF lead /\ Exists(target_dir)
                  THEN /\ pc' = "done"
                       /\ result' = Err("FileExistsError")
                       /\ UNCHANGED <<top, files, what>>
                  ELSE /\ top' = r.top
                       /\ files' = r.files
                       /\ IF ~r.ok
                          THEN pc' = "done" /\ result' = Err("ReadError") /\ what' = what
                          ELSE IF has_patch(p)
                          THEN pc' = "get_file_internal" /\ result' = result /\ what' = "patch"
                          ELSE pc' = "final" /\ result' = result /\ what' = what
  /\ UNCHANGED <<auxvars, wrapfile, wrap_mode, readonly, repo, cachedir, cache, tmpfiles,
                 directory, branch, sm, body, nread, h, tmpname, prev, calls, log,
                 touched>>

\* shutil.copy2(src_file, dst_dir), line 392: the file the copy writes. When
\* dst_dir is a regular file (line 381 takes it for the directory) the copy
\* goes onto that file
CopyDestination(st, rp) ==
  IF Len(rp) >= 2 /\ st.top[rp[1]] = "file" THEN <<rp[1]>> ELSE rp

RECURSIVE copy_tree(_, _, _)
\* copy_tree(root_src_dir, root_dst_dir): the files of the source tree are
\* copied in the order of os.walk (a directory's files before those of its
\* subdirectories); missing directories are made, a file in the way is
\* removed first (after chmod when it is read-only); a copy onto a regular
\* file that is read-only raises
copy_tree(src, origin, st) ==
  IF src = {} \/ ~st.ok THEN st
  ELSE LET rp == CHOOSE q \in src : \A x \in src : Len(q) <= Len(x)
           made == IF Len(rp) >= 2 /\ st.top[rp[1]] = "absent"
                   THEN [st EXCEPT !.top[rp[1]] = "dir"] ELSE st
           dst == CopyDestination(made, rp)
           copied == IF dst # rp /\ dst \in made.readonly
                     THEN [made EXCEPT !.ok = FALSE]
                     ELSE [made EXCEPT !.files = (dst :> origin) @@ made.files,
                                       !.readonly = made.readonly \ {dst}]
       IN  copy_tree(src \ {rp}, origin, copied)

\* apply_patch, lines 368-373: the patch archive is unpacked over the root,
\* or, when that fails, into a scratch directory that is then copied
ApplyPatch ==
  /\ pc = "unpack_patch"
  /\ LET p == wrapfile
         path == cache[Get(p, "patch_filename")]
         direct == unpack_archive(path, <<>>, "patch", Root)
         work == unpack_archive(path, <<>>, "patch", Scratch)
         merged == copy_tree(DOMAIN work.files, "patch", [direct EXCEPT !.ok = TRUE])
     IN  IF direct.ok
         THEN /\ top' = direct.top
              /\ files' = direct.files
              /\ readonly' = readonly
              /\ pc' = "final"
              /\ result' = result
         ELSE IF ~work.ok
         THEN /\ top' = direct.top
              /\ files' = direct.files
              /\ readonly' = readonly
              /\ pc' = "done"
              /\ result' = Err("ReadError")
         ELSE /\ top' = merged.top
              /\ files' = merged.files
              /\ readonly' = merged.readonly
              /\ IF merged.ok THEN pc' = "final" /\ result' = result
                 ELSE pc' = "done" /\ result' = Err("PermissionError")
  /\ UNCHANGED <<auxvars, wrapfile, wrap_mode, repo, cachedir, cache, tmpfiles, directory,
                 branch, sm, dlvars, prev, calls, log, touched>>


\* ------------------------------------------------------------------------
\* The VCS strategies (get_git, get_hg, get_svn)
\* ------------------------------------------------------------------------
\* one choice of the environment for a strategy: the exit status of each tool
\* it can run, whether the tree it leaves holds a build descriptor, and
\* whether `svn info` reports the declared revision
VcsOracles ==
  [rp : {0, 1}, clone : {0, 1}, co1 : {0, 1}, fetch : {0, 1}, co2 : {0, 1},
   seturl : {0, 1}, pull : {0, 1}, m : BOOLEAN, same : BOOLEAN]

\* the oracles git allows for directory d: rev-parse succeeds in a git
\* checkout, and nothing is cloned over a name that is taken
OraclesFor(d) ==
  { o \in VcsOracles : /\ repo[d] = "git" => o.rp = 0
                       /\ top[d] # "absent" => o.clone = 1 }

\* subprocess.call(checkout) != 0, then check_call(fetch), check_call(checkout)
CheckoutOrFetch(co, fetch, o) ==
  IF o.co1 = 0 THEN [ok |-> TRUE, log |-> << Call(co, 0) >>]
  ELSE IF o.fetch # 0 THEN [ok |-> FALSE, log |-> << Call(co, o.co1), Call(fetch, o.fetch) >>]
  ELSE [ok |-> o.co2 = 0, log |-> << Call(co, o.co1), Call(fetch, 0), Call(co, o.co2) >>]

\* subprocess.check_call(checkout)
CheckoutOnce(co, o) == [ok |-> o.co1 = 0, log |-> << Call(co, o.co1) >>]

\* a clone path that gives up when the first checkout fails
GitCloneCheckout_once(o) == CheckoutOnce("git checkout", o)

\* get_git, lines 234-238: the revision is checked out after the clone
GitCloneCheckout(o) == CheckoutOrFetch("git checkout", "git fetch", o)

\* get_hg, lines 263-265: the revision is checked out after the clone
HgCloneCheckout(o) == CheckoutOnce("hg checkout", o)

\* the outcome of a strategy: the error raised ("" for none), the tools run
\* and the tree left behind
Outcome(err, l, t, f, r) == [err |-> err, log |-> l, top |-> t, files |-> f, repo |-> r]

\* the tree after a tool of kind k populated directory d
Populated(k, d, o) ==
  [top |-> [top EXCEPT ![d] = "dir"], repo |-> [repo EXCEPT ![d] = k],
   files |-> SetMeson(files, d, o.m, "vcs")]

\* the outcome of a strategy that ran tools l on an existing checkout
Updated(ok, l, d, o, changed) ==
  Outcome(IF ok THEN "" ELSE "CalledProcessError", l, top,
          IF changed THEN SetMeson(files, d, o.m, "vcs") ELSE files, repo)

\* the outcome of a strategy that cloned into d and then ran the tools l
Cloned(ok, l, k, d, o) ==
  Outcome(IF ok THEN "" ELSE "CalledProcessError", l,
          Populated(k, d, o).top, Populated(k, d, o).files, Populated(k, d, o).repo)

\* get_git(p), lines 204-243
get_git(p, o) ==
  IF ~HasKey(p, "directory") THEN Outcome("KeyError", <<>>, top, files, repo)
  ELSE
    LET d == Get(p, "directory")
        revno == Get(p, "revision")
        is_there == IsDir(d)
        clonecmd == IF HasKey(p, "clone-recursive") /\ Lower(Get(p, "clone-recursive")) = "true"
                    THEN "git clone --recursive" ELSE "git clone"
    IN  IF is_there
        THEN IF o.rp # 0
             THEN Outcome("NotAGitRepository", << Call("git rev-parse", o.rp) >>, top, files, repo)
             ELSE IF Lower(revno) = "head"
             THEN Updated(TRUE, << Call("git rev-parse", 0), Call("git pull", o.pull) >>,
                          d, o, o.pull = 0)
             ELSE LET c == CheckoutOrFetch("git checkout", "git fetch", o)
                  IN  Updated(c.ok, << Call("git rev-parse", 0) >> \o c.log, d, o, c.ok)
        ELSE IF o.clone # 0
             THEN Outcome("CalledProcessError", << Call(clonecmd, o.clone) >>, top, files, repo)
             ELSE LET c == IF Lower(revno) # "head" THEN GitCloneCheckout(o)
                           ELSE [ok |-> TRUE, log |-> <<>>]
                      push == c.ok /\ HasKey(p, "push-url")
                      l == << Call(clonecmd, 0) >> \o c.log \o
                           (IF push THEN << Call("git remote set-url", o.seturl) >> ELSE <<>>)
                  IN  Cloned(c.ok /\ (push => o.seturl = 0), l, "git", d, o)

\* get_hg(p), lines 245-265
get_hg(p, o) ==
  IF ~HasKey(p, "directory") THEN Outcome("KeyError", <<>>, top, files, repo)
  ELSE
    LET d == Get(p, "directory")
        revno == Get(p, "revision")
        is_there == IsDir(d)
    IN  IF is_there
        THEN IF Lower(revno) = "tip"
             THEN Updated(TRUE, << Call("hg pull", o.pull) >>, d, o, o.pull = 0)
             ELSE LET c == CheckoutOrFetch("hg checkout", "hg pull", o)
                  IN  Updated(c.ok, c.log, d, o, c.ok)
        ELSE IF o.clone # 0
             THEN Outcome("CalledProcessError", << Call("hg clone", o.clone) >>, top, files, repo)
             ELSE LET c == IF Lower(revno) # "tip" THEN HgCloneCheckout(o)
                           ELSE [ok |-> TRUE, log |-> <<>>]
                  IN  Cloned(c.ok, << Call("hg clone", 0) >> \o c.log, "hg", d, o)

\* get_svn(p), lines 267-286
get_svn(p, o) ==
  IF ~HasKey(p, "directory") THEN Outcome("KeyError", <<>>, top, files, repo)
  ELSE
    LET d == Get(p, "directory")
        revno == Get(p, "revision")
        is_there == IsDir(d)
    IN  IF is_there
        THEN IF o.same
             THEN Outcome("", << Call("svn info", 0) >>, top, files, repo)
             ELSE IF Lower(revno) = "head"
             THEN Updated(TRUE, << Call("svn info", 0), Call("svn update", o.pull) >>,
                          d, o, o.pull = 0)
             ELSE Updated(o.co1 = 0, << Call("svn info", 0), Call("svn update -r", o.co1) >>,
                          d, o, o.co1 = 0)
        ELSE IF o.clone # 0
             THEN Outcome("CalledProcessError", << Call("svn checkout", o.clone) >>, top, files, repo)
             ELSE Cloned(TRUE, << Call("svn checkout", 0) >>, "svn", d, o)

\* resolve goes on after a strategy with outcome r
AfterStrategy(r) ==
  /\ log' = log \o r.log
  /\ top' = r.top
  /\ files' = r.files
  /\ repo' = r.repo
  /\ IF r.err = "" THEN pc' = "final" /\ result' = result
     ELSE pc' = "done" /\ result' = Err(r.err)
  /\ UNCHANGED <<auxvars, wrapfile, wrap_mode, readonly, cachedir, cache, tmpfiles,
                 directory, branch, sm, dlvars, prev, calls, touched>>

\* resolve, line 128
GetGit ==
  /\ pc = "get_git"
  /\ \E o \in OraclesFor(TargetOf(wrapfile)) : AfterStrategy(get_git(wrapfile, o))

\* resolve, line 130
GetHg ==
  /\ pc = "get_hg"
  /\ \E o \in OraclesFor(TargetOf(wrapfile)) : AfterStrategy(get_hg(wrapfile, o))

\* resolve, line 132
GetSvn ==
  /\ pc = "get_svn"
  /\ \E o \in OraclesFor(TargetOf(wrapfile)) : AfterStrategy(get_svn(wrapfile, o))

\* ------------------------------------------------------------------------
\* Specification
\* ------------------------------------------------------------------------
Next ==
  \/ Resolve
  \/ GetFileInternal
  \/ DownloadStart
  \/ UrlOpen
  \/ ReadBlock
  \/ ReadFail
  \/ ReadEof
  \/ DownloadVerify
  \/ Extract
  \/ ApplyPatch
  \/ GetGit
  \/ GetHg
  \/ GetSvn
  \/ FinalCheck
  \/ Return
  \/ Tamper

Spec == Init /\ [][Next]_vars


\* ------------------------------------------------------------------------
\* The parser on its own: a declaration file is loaded and its fields read
\* ------------------------------------------------------------------------
\* no resolve call runs
CallIdle ==
  /\ wrapfile = NoWrap
  /\ wrap_mode = "default"
  /\ pc = "idle"
  /\ directory = "-"
  /\ branch = "-"
  /\ sm = NoSm
  /\ what = "-"
  /\ body = <<>>
  /\ nread = 0
  /\ h = <<>>
  /\ tmpname = 0
  /\ result = Running
  /\ prev = Running
  /\ calls = 0
  /\ log = <<>>
  /\ touched = FALSE

\* a subprojects root that holds nothing
RootEmpty ==
  /\ top = [d \in DirNames |-> "absent"]
  /\ files = <<>>
  /\ readonly = {}
  /\ repo = [d \in DirNames |-> "none"]
  /\ cachedir = FALSE
  /\ cache = [f \in Filenames |-> NoFile]
  /\ tmpfiles = <<>>

ParserInit ==
  /\ CallIdle /\ RootEmpty /\ ParIdle /\ UrlIdle
  /\ wrapsrc \in WrapFiles \cup {NoWrapFile}
  /\ pd = Unread
  /\ got = NoGet

\* load_wrap, lines 143-147, with PackageDefinition(fname), lines 73-80
LoadWrap ==
  /\ pd = Unread
  /\ pd' = load_wrap_file(wrapsrc)
  /\ UNCHANGED <<callvars, fsvars, wrapsrc, got, par, urlvars>>

\* the keys a caller asks a declaration for
Keys == {"url", "revision", "directory", "Directory", "patch_url"}

\* p.get(key), lines 82-83, on the declaration that was loaded
GetField ==
  /\ pd # Unread
  /\ pd.err = ""
  /\ pd.p # NoWrap
  /\ \E key \in Keys : got' = [key |-> key, res |-> get(pd.p, key)]
  /\ UNCHANGED <<callvars, fsvars, wrapsrc, pd, par, urlvars>>

ParserNext ==
  \/ LoadWrap
  \/ GetField

ParserSpec == ParserInit /\ [][ParserNext]_vars


\* ------------------------------------------------------------------------
\* The openers on their own: the downloads of one process (get_data, lines
\* 292-295, and open_wrapdburl)
\* ------------------------------------------------------------------------
\* URLs as token sequences: the scheme, '://', the host in one or more tokens,
\* the path. The tokens are cut so that a URL starts with the characters of
\* line 292 exactly when it starts with the tokens of WrapdbPrefix.
PathTokens == {"/v1/x", "/x"}
Urls ==
  { <<"https", "://", "wrapdb.mesonbuild.com", "/v1/x">>,
    <<"http", "://", "wrapdb.mesonbuild.com", "/v1/x">>,
    <<"https", "://", "wrapdb.mesonbuild.com", "/x">>,
    <<"https", "://", "wrapdb.mesonbuild.com", "munity", "/x">>,
    <<"https", "://", "wrapdb.mesonbuild.com", ".evil.org", "/v1/x">>,
    <<"https", "://", "example.org", "/x">>,
    <<"http", "://", "example.org", "/x">> }

\* the prefix get_data tests at line 292
WrapdbPrefix == <<"https", "://", "wrapdb.mesonbuild.com">>

\* the host of a URL: what stands between '://' and the path
IsHostToken(t) == t \notin PathTokens
HostOf(url) == Join(SelectSeq(SubSeq(url, 3, Len(url)), IsHostToken))

\* one urllib.request.urlopen call and whether it returned a response
Request(url, ok) == [url |-> url, ok |-> ok]

\* open_wrapdburl(urlstring), lines 52-69, when the first urlopen returns
\* (ok1) or raises URLError and the second returns (ok2) or raises: the
\* requests made, the warnings printed and the flag left behind
open_wrapdburl(urlstring, ok1, ok2) ==
  LET first == IF has_ssl THEN << Request(urlstring, ok1) >> ELSE <<>>
      printed == IF ssl_warning_printed THEN 0 ELSE 1
      plain == IF startswith(urlstring, <<"https">>)
               THEN <<"http">> \o Tail(urlstring) ELSE urlstring
  IN  IF has_ssl /\ ok1
      THEN [calls |-> first, printed |-> 0, flag |-> ssl_warning_printed, ok |-> TRUE]
      ELSE [calls |-> Append(first, Request(plain, ok2)), printed |-> printed,
            flag |-> TRUE, ok |-> ok2]

UrlInit ==
  /\ CallIdle /\ RootEmpty /\ ParserIdle /\ ParIdle
  /\ has_ssl \in BOOLEAN
  /\ ssl_warning_printed = FALSE
  /\ requests = NoRequests
  /\ warnings = 0
  /\ downloads = 0

\* get_data, line 293: the URL starts with the prefix of line 292
OpenWrapdb ==
  /\ downloads < MaxDownloads
  /\ \E url \in Urls, ok1 \in BOOLEAN, ok2 \in BOOLEAN :
       /\ startswith(url, WrapdbPrefix)
       /\ LET r == open_wrapdburl(url, ok1, ok2)
          IN  /\ requests' = [declared |-> url, via |-> "open_wrapdburl", calls |-> r.calls]
              /\ warnings' = warnings + r.printed
              /\ ssl_warning_printed' = r.flag
  /\ downloads' = downloads + 1
  /\ UNCHANGED <<callvars, fsvars, parservars, par, has_ssl>>

\* get_data, line 295: every other URL
OpenPlain ==
  /\ downloads < MaxDownloads
  /\ \E url \in Urls, ok \in BOOLEAN :
       /\ ~startswith(url, WrapdbPrefix)
       /\ requests' = [declared |-> url, via |-> "urlopen", calls |-> << Request(url, ok) >>]
  /\ downloads' = downloads + 1
  /\ UNCHANGED <<callvars, fsvars, parservars, par, has_ssl, ssl_warning_printed, warnings>>

UrlNext ==
  \/ OpenWrapdb
  \/ OpenPlain

UrlSpec == UrlInit /\ [][UrlNext]_vars

\* ------------------------------------------------------------------------
\* apply_patch on its own: a verified patch archive is applied to a
\* subprojects root that can hold anything
\* ------------------------------------------------------------------------
\* the patch archives: every archive of the model without a repeated member
PatchPayloads ==
  { a \in Payloads : a # <<>> /\ \A i, j \in 1..Len(a) : a[i] = a[j] => i = j }

\* a file declaration with directory d whose patch archive is pa
PatchedDeclaration(d, pa) ==
  [type |-> "file",
   values |-> [source_filename |-> "src.tgz", source_url |-> "http://host/src.tgz",
               source_hash |-> Sha256(<< <<"foo", "meson.build">> >>),
               directory |-> d,
               patch_url |-> "http://host/patch.tgz", patch_filename |-> "patch.tgz",
               patch_hash |-> Sha256(pa)]]

\* the regular files a root can hold before the patch is applied
RootPaths == { <<d>> : d \in DirNames } \cup { meson_file(d) : d \in DirNames } \cup { <<MesonBuild>> }

PatchInit ==
  /\ ParserIdle /\ ParIdle /\ UrlIdle
  /\ \E d \in DirNames, pa \in PatchPayloads :
       /\ wrapfile = PatchedDeclaration(d, pa)
       /\ directory = d
       /\ cache = [f \in Filenames |-> IF f = "patch.tgz" THEN pa ELSE << <<"foo", "meson.build">> >>]
  /\ wrap_mode = "default"
  /\ top \in [DirNames -> {"absent", "file", "dir"}]
  /\ \E present \in SUBSET RootPaths :
       /\ \A d \in DirNames : <<d>> \in present <=> top[d] = "file"
       /\ \A d \in DirNames : meson_file(d) \in present => top[d] = "dir"
       /\ files = [q \in present |-> "pre"]
  /\ readonly \in SUBSET (DOMAIN files)
  /\ repo = [d \in DirNames |-> "none"]
  /\ cachedir = TRUE
  /\ tmpfiles = <<>>
  /\ pc = "unpack_patch"
  /\ branch = "absent"
  /\ sm = NoSm
  /\ what = "patch"
  /\ body = <<>>
  /\ nread = 0
  /\ h = <<>>
  /\ tmpname = 0
  /\ result = Running
  /\ prev = Running
  /\ calls = 1
  /\ log = <<>>
  /\ touched = FALSE

PatchNext ==
  \/ ApplyPatch
  \/ FinalCheck

PatchSpec == PatchInit /\ [][PatchNext]_vars


\* ------------------------------------------------------------------------
\* Resolvers that run concurrently on one subprojects root, each obtaining
\* the source archive of its own dependency (get_file_internal)
\* ------------------------------------------------------------------------
Resolvers == {1, 2}

\* the target directory of each resolver's dependency
TargetOfResolver(r) == IF r = 1 THEN "foo" ELSE "bar"

\* the declaration of a dependency whose source archive is `archive`, kept in
\* the package cache under `filename`
SourceDeclaration(r, filename, archive) ==
  [type |-> "file",
   values |-> [source_filename |-> filename, source_url |-> "http://host/src.tgz",
               source_hash |-> Sha256(archive), directory |-> TargetOfResolver(r)]]

\* the locals of a resolver that enters get_file_internal(p, 'source')
Entering(p) ==
  [pc |-> "get_file_internal", p |-> p, body |-> <<>>, nread |-> 0, h |-> <<>>,
   tmpname |-> 0, result |-> Running]

ParInit ==
  /\ CallIdle /\ ParserIdle /\ UrlIdle
  /\ top = [d \in DirNames |-> "absent"]
  /\ files = <<>>
  /\ readonly = {}
  /\ repo = [d \in DirNames |-> "none"]
  /\ cachedir \in BOOLEAN
  /\ cache = [f \in Filenames |-> NoFile]
  /\ tmpfiles = <<>>
  /\ \E f \in Filenames, a \in { << <<"foo", "meson.build">> >>, << <<"meson.build">> >> } :
       par = [r \in Resolvers |->
                IF r = 1 THEN Entering(SourceDeclaration(1, "src.tgz", << <<"foo", "meson.build">> >>))
                ELSE Entering(SourceDeclaration(2, f, a))]

\* what the steps of a resolver leave alone besides the package cache
ParFrame == UNCHANGED <<callvars, parservars, urlvars, top, files, readonly, repo>>

\* the cache file name of resolver r
CachePath(r) == Get(par[r].p, Key("source", "_filename"))

\* get_file_internal, line 356: os.path.exists(cache_path)
PLookup(r) ==
  /\ par[r].pc = "get_file_internal"
  /\ par' = [par EXCEPT ![r].pc = IF cache[CachePath(r)] # NoFile THEN "check_hash" ELSE "isdir"]
  /\ UNCHANGED <<cachedir, cache, tmpfiles>>
  /\ ParFrame

\* get_file_internal, lines 357-359: check_hash on the cached file
PCheckHash(r) ==
  /\ par[r].pc = "check_hash"
  /\ par' = [par EXCEPT ![r].pc = "done",
                        ![r].result = IF check_hash(par[r].p, "source", cache[CachePath(r)])
                                      THEN Ok(CachePath(r)) ELSE Err("HashMismatch")]
  /\ UNCHANGED <<cachedir, cache, tmpfiles>>
  /\ ParFrame

\* get_file_internal, line 361: os.path.isdir(self.cachedir)
PIsDir(r) ==
  /\ par[r].pc = "isdir"
  /\ par' = [par EXCEPT ![r].pc = IF cachedir THEN "download" ELSE "mkdir"]
  /\ UNCHANGED <<cachedir, cache, tmpfiles>>
  /\ ParFrame

\* get_file_internal, line 362: os.mkdir(self.cachedir) raises when the
\* directory is there by now
PMkdir(r) ==
  /\ par[r].pc = "mkdir"
  /\ IF cachedir
     THEN /\ par' = [par EXCEPT ![r].pc = "done", ![r].result = Err("FileExistsError")]
          /\ UNCHANGED cachedir
     ELSE /\ par' = [par EXCEPT ![r].pc = "download"]
          /\ cachedir' = TRUE
  /\ UNCHANGED <<cache, tmpfiles>>
  /\ ParFrame

\* download, lines 342-345, and get_data, lines 289-291
PDownloadStart(r) ==
  /\ par[r].pc = "download"
  /\ IF ~check_can_download
     THEN /\ par' = [par EXCEPT ![r].pc = "done", ![r].result = Err("DownloadDisabled")]
          /\ UNCHANGED tmpfiles
     ELSE /\ par' = [par EXCEPT ![r].pc = "urlopen", ![r].tmpname = FreshTmp]
          /\ tmpfiles' = (FreshTmp :> <<>>) @@ tmpfiles
  /\ UNCHANGED <<cachedir, cache>>
  /\ ParFrame

\* get_data, lines 292-296
PUrlOpen(r) ==
  /\ par[r].pc = "urlopen"
  /\ \/ par' = [par EXCEPT ![r].pc = "done", ![r].result = Err("URLError")]
     \/ \E b \in Payloads : par' = [par EXCEPT ![r].pc = "read", ![r].body = b]
  /\ UNCHANGED <<cachedir, cache, tmpfiles>>
  /\ ParFrame

\* get_data, lines 304-308 and 317-322: a block is read, hashed and written
\* to the resolver's temporary file (a write to a file that was unlinked in
\* the meantime is lost)
PReadBlock(r) ==
  /\ par[r].pc = "read"
  /\ par[r].nread < Len(par[r].body)
  /\ LET block == par[r].body[par[r].nread + 1]
     IN  /\ par' = [par EXCEPT ![r].h = Append(@, block), ![r].nread = @ + 1]
         /\ tmpfiles' = IF par[r].tmpname \in DOMAIN tmpfiles
                        THEN [tmpfiles EXCEPT ![par[r].tmpname] = Append(@, block)]
                        ELSE tmpfiles
  /\ UNCHANGED <<cachedir, cache>>
  /\ ParFrame

\* get_data, lines 304 and 317: resp.read raises
PReadFail(r) ==
  /\ par[r].pc = "read"
  /\ par' = [par EXCEPT ![r].pc = "done", ![r].result = Err("URLError")]
  /\ UNCHANGED <<cachedir, cache, tmpfiles>>
  /\ ParFrame

\* get_data, lines 305-310 and 318-330, and download, lines 346-350: at the
\* end of the stream the digest is compared and the temporary file is removed
\* or renamed over the final name
PVerify(r) ==
  /\ par[r].pc = "read"
  /\ par[r].nread = Len(par[r].body)
  /\ LET name == par[r].tmpname
         gone == [n \in (DOMAIN tmpfiles) \ {name} |-> tmpfiles[n]]
     IN  IF name \notin DOMAIN tmpfiles
         THEN /\ par' = [par EXCEPT ![r].pc = "done", ![r].result = Err("FileNotFoundError")]
              /\ UNCHANGED <<cache, tmpfiles>>
         ELSE IF ~HashMatches(Sha256(par[r].h), Get(par[r].p, Key("source", "_hash")))
         THEN /\ par' = [par EXCEPT ![r].pc = "done", ![r].result = Err("HashMismatch")]
              /\ tmpfiles' = gone
              /\ UNCHANGED cache
         ELSE /\ par' = [par EXCEPT ![r].pc = "done", ![r].result = Ok(CachePath(r))]
              /\ cache' = [cache EXCEPT ![CachePath(r)] = tmpfiles[name]]
              /\ tmpfiles' = gone
  /\ UNCHANGED cachedir
  /\ ParFrame

ParNext ==
  \E r \in Resolvers :
    \/ PLookup(r)
    \/ PCheckHash(r)
    \/ PIsDir(r)
    \/ PMkdir(r)
    \/ PDownloadStart(r)
    \/ PUrlOpen(r)
    \/ PReadBlock(r)
    \/ PReadFail(r)
    \/ PVerify(r)

ParSpec == ParInit /\ [][ParNext]_vars


\* ------------------------------------------------------------------------
\* Properties
\* ------------------------------------------------------------------------
\* the declared file name and hash of the artifact being obtained
CurrentFilename == Get(wrapfile, Key(what, "_filename"))
CurrentHash == Get(wrapfile, Key(what, "_hash"))

\* the positions of get_file_internal and of the download it starts
Acquiring == {"get_file_internal", "download", "urlopen", "read", "verify"}
Downloading == {"urlopen", "read", "verify"}

\* whether the call ran command cmd
Ran(cmd) == \E i \in 1..Len(log) : log[i].cmd = cmd

\* C1: when resolve returned directory d and nothing changed the filesystem
\* since, the next resolve returns d again and runs no tool and opens no
\* connection (its log of external activity is empty).
C1_Idempotent ==
  (pc = "done" /\ prev.ok /\ ~touched) => (result = prev /\ log = <<>>)

\* a second call returned at once after a first call that returned a
\* directory, with nothing changed in between
C1_Witness ==
  pc = "done" /\ calls = 2 /\ prev.ok /\ ~touched /\ result.ok /\ branch = "short"

\* C2: resolve returns a directory only when <subprojects_root>/<directory>/
\* meson.build exists at the time of return, and the directory it returns is
\* the one it computed; when the descriptor is absent it raises.
C2_ReturnsOnlyWithDescriptor ==
  pc = "done" =>
    /\ result.ok => (result.val = directory /\ FileExists(meson_file(directory)))
    /\ ~FileExists(meson_file(directory)) => ~result.ok

\* resolve returned after it acquired the absent target
C2_Witness ==
  pc = "done" /\ result.ok /\ branch = "absent" /\ FileExists(meson_file(directory))

\* C3 as claimed: target absent after submodule reconciliation, a declaration
\* exists and the mode is nodownload: resolve fails with the download-disabled
\* error before any strategy is dispatched, whatever the kind and the cache.
C3_Claimed ==
  (branch = "absent" /\ wrapfile # NoWrap /\ wrap_mode = "nodownload") =>
    (pc = "done" /\ result = Err("DownloadDisabled"))

\* the tools of the submodule reconciliation step
SubmoduleTools == {"git rev-parse", "git submodule status", "mlog.warning",
                   "git submodule update --init", "git checkout ."}

\* C3 amended: under nodownload with the target absent and a declaration
\* present, a git, hg or svn declaration fails with the download-disabled
\* error before its strategy runs any tool; a file declaration is dispatched
\* to the file strategy, which opens no connection and creates no temporary
\* file, and fails with the download-disabled error exactly when the artifact
\* it needs is not in the package cache.
C3_DownloadDisabled ==
  (branch = "absent" /\ wrapfile # NoWrap /\ wrap_mode = "nodownload") =>
    /\ wrapfile.type # "file" =>
         /\ pc = "done"
         /\ result = Err("DownloadDisabled")
         /\ \A i \in 1..Len(log) : log[i].cmd \in SubmoduleTools
    /\ wrapfile.type = "file" =>
         /\ pc \notin Downloading
         /\ ~Ran("urlopen")
         /\ pc = "done" => (result = Err("DownloadDisabled") <=> cache[CurrentFilename] = NoFile)

\* a git declaration was refused under nodownload
C3_Witness ==
  /\ branch = "absent" /\ wrap_mode = "nodownload" /\ wrapfile.type = "git"
  /\ pc = "done" /\ result = Err("DownloadDisabled")

\* C4: when an artifact is requested and the file at <cache_dir>/<filename>
\* has a SHA-256 other than the declared hash of that role, the call fails
\* with the hash-mismatch error in that step: the cached file and the other
\* files of the cache are unchanged and no connection is opened.
C4_CacheHitMismatchIsFatal ==
  [][ (/\ pc = "get_file_internal"
       /\ cache[CurrentFilename] # NoFile
       /\ Sha256(cache[CurrentFilename]) # CurrentHash)
      => (/\ pc' = "done"
          /\ result' = Err("HashMismatch")
          /\ cache' = cache
          /\ tmpfiles' = tmpfiles
          /\ log' = log) ]_vars

\* a call failed on a cached file with the wrong hash, which is still there
C4_Witness ==
  /\ pc = "done" /\ result = Err("HashMismatch")
  /\ cache[CurrentFilename] # NoFile
  /\ Sha256(cache[CurrentFilename]) # CurrentHash

\* C5: while a download runs the final cache path stays absent; a file
\* appears at a final cache path only by the rename of download, and then it
\* holds the complete body that was served and its SHA-256 is the declared
\* hash of the role.
C5_DownloadAtomic ==
  /\ [](pc \in Downloading => cache[CurrentFilename] = NoFile)
  /\ [][ \A f \in Filenames :
           (cache[f] = NoFile /\ cache'[f] # NoFile) =>
             /\ pc = "verify"
             /\ f = CurrentFilename
             /\ nread = Len(body)
             /\ cache'[f] = body
             /\ Sha256(cache'[f]) = CurrentHash ]_vars

\* a download of two blocks was renamed to the final cache path
C5_Witness ==
  /\ pc = "extract" /\ Len(body) >= 2 /\ nread = Len(body)
  /\ cache[CurrentFilename] = body


\* the cached source archive, whether it passed verification, and whether an
\* archive holds the build descriptor of a directory
SourceFile == cache[Get(wrapfile, "source_filename")]
SourceVerified == SourceFile # NoFile /\ Sha256(SourceFile) = Get(wrapfile, "source_hash")
ContainsDescriptor(archive, dir) == \E i \in 1..Len(archive) : archive[i] = <<dir, "meson.build">>

\* the source archive is only extracted once it is verified
ExtractsVerifiedOnly == pc = "extract" => SourceVerified

\* nothing is created or extracted under the root while the source archive is
\* obtained, and a source archive with the wrong hash (cached or served) ends
\* the call with the hash-mismatch error
SourceStepKeepsTree ==
  /\ (what = "source" /\ pc \in Acquiring) => (top' = top /\ files' = files)
  /\ (\/ /\ pc = "get_file_internal" /\ what = "source"
         /\ SourceFile # NoFile /\ Sha256(SourceFile) # Get(wrapfile, "source_hash")
      \/ /\ pc = "verify" /\ what = "source"
         /\ Sha256(body) # Get(wrapfile, "source_hash"))
     => (pc' = "done" /\ result' = Err("HashMismatch"))

\* a call for a file declaration that names its directory found the target
\* absent and ended holding a verified archive with <directory>/meson.build
VerifiedWithDescriptor ==
  /\ pc = "done" /\ wrapfile.type = "file" /\ branch = "absent"
  /\ "directory" \in DOMAIN wrapfile.values
  /\ SourceVerified
  /\ ContainsDescriptor(SourceFile, directory)

\* C6 as claimed: for a file declaration with the target absent the archive
\* is extracted only after verification, a wrong hash fails with the
\* hash-mismatch error with nothing created or extracted, and with the right
\* hash and <directory>/meson.build in the archive resolve returns the
\* directory.
C6_Claimed ==
  /\ [](ExtractsVerifiedOnly)
  /\ [][SourceStepKeepsTree]_vars
  /\ [](VerifiedWithDescriptor => result = Ok(directory))

\* C6 amended: as claimed, except that resolve is only sure to return the
\* directory when the declaration names its directory and declares neither a
\* patch nor lead_directory_missing.
C6_VerifyBeforeExtract ==
  /\ [](ExtractsVerifiedOnly)
  /\ [][SourceStepKeepsTree]_vars
  /\ []((/\ VerifiedWithDescriptor
         /\ "patch_url" \notin DOMAIN wrapfile.values
         /\ "lead_directory_missing" \notin DOMAIN wrapfile.values)
        => result = Ok(directory))

\* a freshly downloaded and verified archive was extracted and resolve
\* returned its directory
C6_Witness ==
  /\ VerifiedWithDescriptor
  /\ "patch_url" \notin DOMAIN wrapfile.values
  /\ "lead_directory_missing" \notin DOMAIN wrapfile.values
  /\ Ran("urlopen")
  /\ result = Ok(directory)

\* what every case of the submodule status output does, but for '-'
SubmoduleCases ==
  /\ sm.out = <<"+", "c">> =>
       sm.ret = "True" /\ Len(log) = 3 /\ log[3] = Call("mlog.warning", 0)
  /\ sm.out = <<"U", "c">> =>
       sm.ret = "MergeConflict" /\ Len(log) = 2
  /\ sm.out = <<"-", "c">> =>
       Len(log) >= 3 /\ log[3].cmd = "git submodule update --init"
  /\ sm.out = <<" ", "c">> =>
       sm.ret = "True" /\ Len(log) = 3 /\ log[3].cmd = "git checkout ."
  /\ sm.out = <<>> =>
       sm.ret = "False" /\ (Len(log) >= 3 => log[3].cmd \notin SubmoduleTools)
  /\ sm.out = <<"?">> =>
       sm.ret = "UnknownSubmoduleOutput" /\ Len(log) = 2
  /\ sm.ret \notin {"True", "False", "n/a"} => (pc = "done" /\ result = Err(sm.ret))

\* C7 as claimed: each status prefix drives its branch; 'U' and an unknown
\* prefix raise, and '+', '-', ' ' and the empty output never raise, whatever
\* the exit status of the tool that is run.
C7_Claimed ==
  sm.out # <<"n/a">> =>
    /\ SubmoduleCases
    /\ sm.out \in { <<"+", "c">>, <<"-", "c">>, <<" ", "c">>, <<>> } => sm.ret \in {"True", "False"}

\* C7 amended: each status prefix drives its branch; 'U' and an unknown prefix
\* raise, '+', ' ' and the empty output never raise, and '-' raises exactly
\* when the initializing update exits with a non-zero status.
C7_SubmoduleClassification ==
  sm.out # <<"n/a">> =>
    /\ SubmoduleCases
    /\ sm.out \in { <<"+", "c">>, <<" ", "c">>, <<>> } => sm.ret \in {"True", "False"}
    /\ sm.out = <<"-", "c">> =>
         /\ log[3].rc = 0 => sm.ret = "True"
         /\ log[3].rc # 0 => sm.ret = "SubmoduleInitFailed"

\* an uninitialized submodule whose initializing update failed
C7_Witness ==
  /\ sm.out = <<"-", "c">> /\ sm.ret = "SubmoduleInitFailed"
  /\ pc = "done" /\ result = Err("SubmoduleInitFailed")

\* the clone commands, and whether the declared revision is a pinned one
CloneCmds == {"git clone", "git clone --recursive", "hg clone", "svn checkout"}
Pinned ==
  \/ wrapfile.type = "git" /\ wrapfile.values.revision \notin {"HEAD", "head"}
  \/ wrapfile.type = "hg" /\ wrapfile.values.revision # "tip"

\* the first checkout after the successful clone at position i failed
FirstCheckoutFailedAfter(i) ==
  /\ wrapfile.type \in {"git", "hg"} /\ Pinned
  /\ log[i].cmd \in CloneCmds /\ log[i].rc = 0
  /\ Len(log) > i /\ log[i + 1].cmd \in {"git checkout", "hg checkout"}
  /\ log[i + 1].rc # 0

\* a fetch from the remote follows at position i, and the retried checkout
\* follows a fetch that succeeded
FetchAndRetryAt(i) ==
  /\ Len(log) >= i /\ log[i].cmd \in {"git fetch", "hg pull"}
  /\ log[i].rc = 0 => (Len(log) > i /\ log[i + 1].cmd \in {"git checkout", "hg checkout"})

C9_Claimed ==
  (/\ pc = "done" /\ wrapfile.type = "git" /\ wrapfile.values.revision = "HEAD"
   /\ repo[directory] = "git"
   /\ FileExists(<<directory, "meson.build">>)
   /\ \A i \in 1..Len(log) : log[i].cmd \notin CloneCmds \cup {"git submodule update --init"})
  => (result = Ok(directory) /\ Ran("git pull"))

\* C10 as claimed: a declaration without a `directory` field resolves into
\* <subprojects_root>/<name>: with the target absent the strategy of its kind
\* acquires the source there, and resolve returns name when it returns.
C10_Claimed ==
  (/\ pc = "done" /\ wrapfile # NoWrap /\ "directory" \notin DOMAIN wrapfile.values
   /\ branch = "absent")
  => /\ directory = packagename
     /\ result # Err("KeyError")
     /\ result.ok => result.val = packagename
     /\ (wrapfile.type \in {"git", "hg", "svn"} /\ wrap_mode = "default") =>
          \E i \in 1..Len(log) : log[i].cmd \in CloneCmds

\* the first section of the file that was loaded, and whether its name has
\* the required prefix
FirstSection == wrapsrc.sections[1]
HasWrapPrefix == startswith(FirstSection.name, WrapPrefix)

\* C11 as claimed: parsing fails with the format error when the file has no
\* section and when the section name lacks the 'wrap-' prefix; otherwise the
\* declaration's kind is the section name without the prefix and every option
\* of the section is a field of it (under its lower-cased name); reading a
\* field that is not declared fails with the missing-key error.
C11_Claimed ==
  (wrapsrc.isfile /\ pd # Unread) =>
    /\ wrapsrc.sections = <<>> => pd.err = "InvalidFormat"
    /\ (wrapsrc.sections # <<>> /\ ~HasWrapPrefix) => pd.err = "InvalidFormat"
    /\ (wrapsrc.sections # <<>> /\ HasWrapPrefix) =>
         /\ pd.err = ""
         /\ pd.p.type = Join(SubSeq(FirstSection.name, Len(WrapPrefix) + 1,
                                     Len(FirstSection.name)))
         /\ \A k \in DOMAIN FirstSection.options :
              /\ optionxform(k) \in DOMAIN pd.p.values
              /\ pd.p.values[optionxform(k)] = FirstSection.options[k]
         /\ (got.key # "-" /\ got.key \notin DOMAIN pd.p.values) => got.res = Err("KeyError")

\* C12 as claimed: no declaration the parser accepts drives resolve into the
\* 'Unreachable code' assertion of its dispatch.
C12_Claimed == ~(pc = "done" /\ result = Err("AssertionError"))

\* the declared hash of resolver r's archive, and whether r has finished
DeclaredHash(r) == Get(par[r].p, Key("source", "_hash"))
Finished(r) == par[r].pc = "done"
\* resolver r is between the creation of its temporary file and the rename
Writing(r) == par[r].pc \in {"urlopen", "read"}
\* resolver r downloaded its archive and renamed it to the final name f
Wrote(r, f) == Finished(r) /\ par[r].result = Ok(f) /\ par[r].tmpname # 0 /\ CachePath(r) = f

\* what get_file_internal of resolver r ends with when nothing runs beside it
\* on a root without the cached archive: the archive is in the cache with the
\* declared hash, or what the server sent has another hash, or the connection
\* failed
AloneOutcome(r) ==
  \/ /\ par[r].result = Ok(CachePath(r))
     /\ cache[CachePath(r)] # NoFile
     /\ Sha256(cache[CachePath(r)]) = DeclaredHash(r)
  \/ /\ par[r].result = Err("HashMismatch")
     /\ par[r].nread = Len(par[r].body)
     /\ Sha256(par[r].body) # DeclaredHash(r)
  \/ par[r].result = Err("URLError")

\* C13 as claimed: two resolvers on one subprojects root whose dependencies
\* have disjoint target directories and cache file names both end as each
\* would when run alone, under every interleaving, also when the cache
\* directory does not exist when both start.
C13_Claimed ==
  CachePath(1) # CachePath(2) => \A r \in Resolvers : Finished(r) => AloneOutcome(r)

\* the final cache path f is absent, or holds the complete body one of the
\* resolvers downloaded, with that resolver's declared hash
FinalPathWhole(f) ==
  cache[f] = NoFile \/
    \E r \in Resolvers : /\ Wrote(r, f)
                         /\ par[r].nread = Len(par[r].body)
                         /\ cache[f] = par[r].body
                         /\ Sha256(cache[f]) = DeclaredHash(r)

\* every resolver that is downloading has a temporary file no other resolver
\* uses, and that file holds exactly the blocks its owner has read
OwnTemporaryFiles ==
  \A r \in Resolvers : Writing(r) =>
    /\ par[r].tmpname \in DOMAIN tmpfiles
    /\ tmpfiles[par[r].tmpname] = SubSeq(par[r].body, 1, par[r].nread)
    /\ \A q \in Resolvers \ {r} : Writing(q) => par[q].tmpname # par[r].tmpname

\* the final cache paths change only by the rename of a resolver that read
\* its whole body
OnlyRenameWrites ==
  \A f \in Filenames :
    cache'[f] # cache[f] =>
      \E r \in Resolvers : /\ par[r].pc = "read" /\ par[r].nread = Len(par[r].body)
                           /\ par'[r].result = Ok(f)
                           /\ cache'[f] = par[r].body

\* C14: when two downloads target the same cache file name, under every
\* interleaving the final cache path is at each moment absent or holds the
\* complete verified bytes of a writer that succeeded; it changes only by a
\* rename; and every writer writes only to its own, uniquely named temporary
\* file before the rename.
C14_ConcurrentWriters ==
  /\ [](\A f \in Filenames : FinalPathWhole(f))
  /\ [](OwnTemporaryFiles)
  /\ [][OnlyRenameWrites]_vars

\* both resolvers downloaded the same cache file at the same time and both
\* renamed their temporary file over the final name
C14_Witness ==
  /\ CachePath(1) = CachePath(2)
  /\ Wrote(1, CachePath(1)) /\ Wrote(2, CachePath(2))
  /\ par[1].tmpname # par[2].tmpname
  /\ cache[CachePath(1)] # NoFile

\* the patch archive being applied, its members, and whether unpacking it
\* directly over the subprojects root fails
PatchFile == cache[Get(wrapfile, "patch_filename")]
PatchMembers == { PatchFile[i] : i \in 1..Len(PatchFile) }
DirectUnpackFails == ~unpack_archive(PatchFile, <<>>, "patch", Root).ok

\* C15 as claimed: when unpacking the patch archive directly over the root
\* fails and apply_patch returns from the fallback, every file of the archive
\* is under the root at its relative path with the archive's content (missing
\* directories created, read-only files overwritten), and the files of the
\* root that are not in the archive are unchanged.
C15_Claimed ==
  [][ (pc = "unpack_patch" /\ DirectUnpackFails /\ pc' = "final") =>
        /\ \A m \in PatchMembers :
             /\ m \in DOMAIN files' /\ files'[m] = "patch"
             /\ Len(m) >= 2 => top'[m[1]] = "dir"
        /\ \A q \in (DOMAIN files) \ PatchMembers :
             q \in DOMAIN files' /\ files'[q] = files[q] ]_vars

\* the host of the package index
CanonicalHost == "wrapdb.mesonbuild.com"

\* C16 as claimed: a download goes through the fallback opener only when the
\* host of the declared URL is the package index host; for every other host,
\* also one that only begins with that name, the request is made once, with
\* the URL as declared (never rewritten from https to http); and the fallback
\* warning is printed at most once in a process.
C16_Claimed ==
  /\ requests.via = "open_wrapdburl" => HostOf(requests.declared) = CanonicalHost
  /\ (requests.via # "-" /\ HostOf(requests.declared) # CanonicalHost) =>
       /\ Len(requests.calls) = 1
       /\ requests.calls[1].url = requests.declared
  /\ warnings <= 1

\* C17 as claimed: after a download attempt that fails, by hash mismatch, by a
\* failure to open the connection or by a read error in the stream, the
\* temporary file the attempt created is no longer in the cache directory.
C17_Claimed ==
  (pc = "done" /\ tmpname # 0 /\ result \in {Err("HashMismatch"), Err("URLError")})
    => tmpname \notin DOMAIN tmpfiles

\* the positions at which resolve has dispatched to a VCS strategy
VcsStrategies == {"get_git", "get_hg", "get_svn"}

\* the commands only the existing-checkout branches of the strategies run
ExistingCheckoutCmds == {"git pull", "hg pull", "svn info", "svn update", "svn update -r"}

\* a resolve call starts while the target is a directory without meson.build
StartsOnBareDirectory ==
  /\ pc = "idle" /\ calls' = calls + 1
  /\ IsDir(TargetOf(wrapfile))
  /\ ~FileExists(meson_file(TargetOf(wrapfile)))

\* when resolve dispatches to a VCS strategy the target does not exist
DispatchOnlyWhenAbsent ==
  pc \in VcsStrategies => (directory = TargetOf(wrapfile) /\ ~Exists(directory))

\* C18 as claimed: at the dispatch to a VCS strategy the target does not
\* exist; and a resolve that finds the target a directory without a build
\* descriptor runs no acquisition strategy and fails: it reaches the final
\* check without a build descriptor (or, read in the claim's favour, the
\* submodule reconciliation raised before).
C18_Claimed ==
  /\ [](DispatchOnlyWhenAbsent)
  /\ [][ StartsOnBareDirectory =>
           /\ pc' \in {"final", "done"}
           /\ pc' = "final" => ~FileExists(meson_file(TargetOf(wrapfile)))' ]_vars

\* C18 amended: at the dispatch to a VCS strategy the target does not exist,
\* so no call runs a command of an existing-checkout branch (a pull, an
\* update, svn info, a repository validation) and a checkout or fetch only
\* follows a clone; a resolve that finds the target a directory without a
\* build descriptor runs only the tools of the submodule reconciliation
\* (which may be git checkout . or git submodule update --init) and no
\* strategy, and then either raises the error of the reconciliation or, at
\* the final check, returns the directory when the reconciliation left a
\* build descriptor and fails with the missing-descriptor error when not.
C18_NoExistingCheckoutBranch ==
  /\ [](DispatchOnlyWhenAbsent)
  /\ [](\A i \in 1..Len(log) :
          /\ log[i].cmd \notin ExistingCheckoutCmds
          /\ (i > 1 => log[i].cmd # "git rev-parse")
          /\ log[i].cmd \in {"git checkout", "git fetch", "hg checkout"} =>
               \E j \in 1..(i - 1) : log[j].cmd \in CloneCmds /\ log[j].rc = 0)
  /\ [][ StartsOnBareDirectory =>
           /\ \A i \in 1..Len(log') : log'[i].cmd \in SubmoduleTools
           /\ \/ pc' = "done" /\ branch' = "submodule" /\ result' = Err(sm'.ret)
              \/ pc' = "final" /\ branch' = "exists" ]_vars
  /\ []((pc = "done" /\ branch = "exists" /\ IsDir(directory)) =>
          /\ \A i \in 1..Len(log) : log[i].cmd \in SubmoduleTools
          /\ FileExists(meson_file(directory)) => result = Ok(directory)
          /\ ~FileExists(meson_file(directory)) => result = Err("NoMesonBuild"))

\* a VCS declaration whose target was a directory without a build descriptor:
\* resolve ran no strategy and failed with the missing-descriptor error
C18_Witness ==
  /\ pc = "done" /\ branch = "exists" /\ wrapfile.type \in {"git", "hg", "svn"}
  /\ IsDir(directory)
  /\ result = Err("NoMesonBuild")

\* the patch archive a declaration commits to, and whether all its members
\* are in the tree as the patch step wrote them
DeclaredPatch == CHOOSE a \in PatchArchives : Sha256(a) = Get(wrapfile, "patch_hash")
PatchApplied ==
  \A i \in 1..Len(DeclaredPatch) :
    DeclaredPatch[i] \in DOMAIN files /\ files[DeclaredPatch[i]] = "patch"

\* C19 as claimed: for a file declaration that declares a patch, whose target
\* was absent and was extracted by resolve, no resolve call over the life of
\* the subprojects root returns the directory unless the verified patch
\* archive has been applied to the tree, in that call or an earlier one.
C19_Claimed ==
  (/\ pc = "done" /\ result.ok
   /\ wrapfile.type = "file" /\ has_patch(wrapfile)
   /\ files[meson_file(directory)] \in {"source", "patch"})
  => PatchApplied

====
